---- MODULE Spec2Model ----
(***************************************************************************)
(* Model of the trip warehouse pipeline of jahua/data_warehouse:           *)
(*   src/lambda/bike_lambda.py   appends position pings to bike_status     *)
(*   src/lambda/trips_lambda.py  derives trips from the pings of a 24 h    *)
(*                               window and upserts them into all_trips    *)
(*                                                                         *)
(* Time is counted in seconds.  Timestamps of bike_status are naive UTC    *)
(* wall-clock values (datetime.now() of a Lambda process); the query       *)
(* converts them to Europe/Zurich wall-clock time.  The modelled time span *)
(* contains the end of daylight saving time at instant DstEnd.             *)
(* Coordinates are grid indices: latitude 47.0 + 0.01*lat, longitude       *)
(* 8.0 + 0.01*lon.  Durations are kept in seconds (the query's minutes     *)
(* times 60) and distances in metres, so that all arithmetic is exact.     *)
(***************************************************************************)
EXTENDS Integers, Sequences, FiniteSets, TLC

(***************************************************************************)
(* Program constants                                                       *)
(***************************************************************************)
\* timedelta(days=1), in seconds
WindowLen == 86400
\* EXTRACT(EPOCH FROM ...) BETWEEN 60 AND 3600
MinGap == 60
MaxGap == 3600
\* duration_minutes = seconds / 60.0
SecPerMin == 60
\* total_duration >= 1 AND total_duration <= 60 (minutes)
MinTotal == 1
MaxTotal == 60
\* segment_count >= 2
MinSegments == 2
\* UTC offsets of Europe/Zurich: CEST before DstEnd, CET from DstEnd on
CestOffset == 7200
CetOffset == 3600
\* the instant (UTC) at which daylight saving time ends in the modelled span
DstEnd == 6000
\* 6371 km * radians(0.01 degree), in metres; the same along a parallel at 47 N
LatStep == 1112
LonStep == 758
\* HTTP-like status codes of the handler's result
StatusOk == 200
StatusError == 500

(***************************************************************************)
(* Bounds of the model                                                     *)
(***************************************************************************)
\* rows per INSERT statement issued by execute_values (psycopg2 uses 100)
PageSize == 1
\* handler invocations in one behaviour
MaxRuns == 2
\* largest latitude index of the exhaustive ping histories
MaxLat == 3

Bikes == {"V1", "V2"}
Providers == {"P1", "P2"}
Runs == {1, 2}

(***************************************************************************)
(* Conversions                                                             *)
(***************************************************************************)
\* timestamp AT TIME ZONE 'UTC' AT TIME ZONE 'Europe/Zurich':
\* the Zurich wall-clock reading of a UTC instant
ToLocal(t) == IF t < DstEnd THEN t + CestOffset ELSE t + CetOffset

\* zurich_tz.localize(datetime.now()) followed by %s::timestamp in a UTC
\* session: the process clock reading n (UTC) is taken for a Zurich
\* wall-clock reading; an ambiguous reading resolves to standard time.
Localize(n) == IF n < DstEnd + CetOffset THEN n - CestOffset ELSE n - CetOffset

Abs(x) == IF x < 0 THEN -x ELSE x

\* sqrt: the largest r in lo..hi with r * r <= x
RECURSIVE IsqrtIn(_, _, _)
IsqrtIn(x, lo, hi) ==
    IF lo >= hi THEN lo
    ELSE LET mid == (lo + hi + 1) \div 2
         IN IF mid * mid <= x THEN IsqrtIn(x, mid, hi) ELSE IsqrtIn(x, lo, mid - 1)

\* 6371 * 2 * asin(sqrt(...)): great-circle distance, in metres, of two grid
\* points; at grid scale the haversine formula agrees with the planar distance
Haversine(lat1, lon1, lat2, lon2) ==
    LET dy == LatStep * Abs(lat2 - lat1)
        dx == LonStep * Abs(lon2 - lon1)
    IN IsqrtIn(dy * dy + dx * dx, 0, dy + dx)

(***************************************************************************)
(* The extraction query                                                    *)
(***************************************************************************)
Range(s) == {s[i] : i \in DOMAIN s}

\* SUM(column) over the rows of a group
RECURSIVE SumOf(_, _)
SumOf(g, column) == IF g = <<>> THEN 0 ELSE Head(g)[column] + SumOf(Tail(g), column)

MinOf(S) == CHOOSE x \in S : \A y \in S : x <= y
MaxOf(S) == CHOOSE x \in S : \A y \in S : x >= y

\* WHERE timestamp >= start AND timestamp < end
InWindow(rows, w) ==
    SelectSeq(rows, LAMBDA p : p.timestamp >= w.start /\ p.timestamp < w.end)

\* PARTITION BY bike_id without the ORDER BY: the rows in stored order
PartitionUnsorted(rows, b) == SelectSeq(rows, LAMBDA p : p.bike_id = b)

\* PARTITION BY bike_id ORDER BY timestamp
Partition(rows, b) ==
    SortSeq(SelectSeq(rows, LAMBDA p : p.bike_id = b),
            LAMBDA x, y : x.timestamp < y.timestamp)

\* CTE trip_data of one partition: every row with its LAG row; the first row
\* of a partition has none (prev_null: its prev_ columns are NULL)
trip_data(part) ==
    [i \in 1..Len(part) |->
        [bike_id |-> part[i].bike_id,
         provider_id |-> part[i].provider_id,
         local_time |-> ToLocal(part[i].timestamp),
         lat |-> part[i].lat,
         lon |-> part[i].lon,
         prev_null |-> (i = 1),
         prev_time |-> IF i = 1 THEN 0 ELSE ToLocal(part[i - 1].timestamp),
         prev_lat |-> IF i = 1 THEN 0 ELSE part[i - 1].lat,
         prev_lon |-> IF i = 1 THEN 0 ELSE part[i - 1].lon]]

\* the WHERE clause of trip_segments
InTrip(d) ==
    /\ ~d.prev_null
    /\ d.local_time - d.prev_time >= MinGap
    /\ d.local_time - d.prev_time <= MaxGap
    /\ (d.prev_lat # d.lat \/ d.prev_lon # d.lon)

\* one row of trip_segments
Segment(d) ==
    [bike_id |-> d.bike_id,
     provider_id |-> d.provider_id,
     end_time |-> d.local_time,
     start_time |-> d.prev_time,
     start_lat |-> d.prev_lat,
     start_lon |-> d.prev_lon,
     end_lat |-> d.lat,
     end_lon |-> d.lon,
     duration |-> d.local_time - d.prev_time,
     distance |-> Haversine(d.prev_lat, d.prev_lon, d.lat, d.lon)]

\* CTE trip_segments of one partition
trip_segments(part) ==
    LET td == trip_data(part)
        kept == SelectSeq(td, InTrip)
    IN [i \in 1..Len(kept) |-> Segment(kept[i])]

\* variant: segment_count counts the pings instead of the pairs
AggregateCountPings(g) ==
    [bike_id |-> g[1].bike_id,
     provider_id |-> g[1].provider_id,
     trip_start |-> MinOf({g[i].start_time : i \in DOMAIN g}),
     trip_end |-> MaxOf({g[i].end_time : i \in DOMAIN g}),
     start_lat |-> MinOf({g[i].start_lat : i \in DOMAIN g}),
     start_lon |-> MinOf({g[i].start_lon : i \in DOMAIN g}),
     end_lat |-> MaxOf({g[i].end_lat : i \in DOMAIN g}),
     end_lon |-> MaxOf({g[i].end_lon : i \in DOMAIN g}),
     total_duration |-> SumOf(g, "duration"),
     total_distance |-> SumOf(g, "distance"),
     segment_count |-> Len(g) + 1]

\* one row of trip_aggregates: the aggregate of a non-empty group
Aggregate(g) ==
    [bike_id |-> g[1].bike_id,
     provider_id |-> g[1].provider_id,
     trip_start |-> MinOf({g[i].start_time : i \in DOMAIN g}),
     trip_end |-> MaxOf({g[i].end_time : i \in DOMAIN g}),
     start_lat |-> MinOf({g[i].start_lat : i \in DOMAIN g}),
     start_lon |-> MinOf({g[i].start_lon : i \in DOMAIN g}),
     end_lat |-> MaxOf({g[i].end_lat : i \in DOMAIN g}),
     end_lon |-> MaxOf({g[i].end_lon : i \in DOMAIN g}),
     total_duration |-> SumOf(g, "duration"),
     total_distance |-> SumOf(g, "distance"),
     segment_count |-> Len(g)]

\* GROUP BY bike_id, provider_id
Group(segs, p) == SelectSeq(segs, LAMBDA s : s.provider_id = p)

\* CTE trip_aggregates over the rows of a window
trip_aggregates(rows) ==
    {Aggregate(Group(trip_segments(Partition(rows, b)), p)) :
        <<b, p>> \in {bp \in Bikes \X Providers :
                        Group(trip_segments(Partition(rows, bp[1])), bp[2]) # <<>>}}

\* variant: a single segment is accepted
ValidSingle(t) ==
    /\ t.total_duration >= MinTotal * SecPerMin
    /\ t.total_duration <= MaxTotal * SecPerMin
    /\ t.total_distance > 0
    /\ t.segment_count >= 1

\* the WHERE clause of the final SELECT
Valid(t) ==
    /\ t.total_duration >= MinTotal * SecPerMin
    /\ t.total_duration <= MaxTotal * SecPerMin
    /\ t.total_distance > 0
    /\ t.segment_count >= MinSegments

\* ORDER BY trip_start: every order of the rows that is sorted by trip_start
RECURSIVE OrderBy(_)
OrderBy(S) ==
    IF S = {} THEN {<<>>}
    ELSE UNION {{<<x>> \o rest : rest \in OrderBy(S \ {x})} :
                  x \in {y \in S : \A z \in S : y.trip_start <= z.trip_start}}

\* the result sets extract_query can return for the rows of bike_status
ExtractQuery(rows, w) ==
    OrderBy({t \in trip_aggregates(InWindow(rows, w)) : Valid(t)})

(***************************************************************************)
(* The destination table and the upsert statement                          *)
(***************************************************************************)
\* the columns of all_trips the INSERT names, in the order of the SELECT list
TripColumns ==
    {"bike_id", "provider_id", "trip_start", "trip_end", "start_lat", "start_lon",
     "end_lat", "end_lon", "total_duration", "total_distance", "segment_count"}

\* the named columns of a stored row
Attrs(row) == [c \in TripColumns |-> row[c]]

\* variant: the constraint and the arbiter name trip_end instead of trip_start
ConflictKeyByEnd(t) == <<t.bike_id, t.trip_end>>

\* CONSTRAINT unique_trip UNIQUE (bike_id, trip_start), which
\* ON CONFLICT (bike_id, trip_start) names as its arbiter
ConflictKey(t) == <<t.bike_id, t.trip_start>>

\* the rows that conflict with a proposed row
Existing(rows, t) == {x \in rows : ConflictKey(x) = ConflictKey(t)}

\* the unique index of unique_trip rejects a second row with the same key
ViolatesUnique(rows, t) == \E x \in rows : ConflictKey(x) = ConflictKey(t)

\* a proposed row: trip_id takes DEFAULT nextval('all_trips_trip_id_seq')
Proposed(t, id) == [c \in TripColumns \cup {"trip_id"} |-> IF c = "trip_id" THEN id ELSE t[c]]

\* variant: the update adds the new duration to the stored one
OnConflictAccumulate(old, excluded) ==
    [old EXCEPT !.provider_id = excluded.provider_id,
                !.trip_end = excluded.trip_end,
                !.start_lat = excluded.start_lat,
                !.start_lon = excluded.start_lon,
                !.end_lat = excluded.end_lat,
                !.end_lon = excluded.end_lon,
                !.total_duration = @ + excluded.total_duration,
                !.total_distance = excluded.total_distance,
                !.segment_count = excluded.segment_count]

\* DO UPDATE SET provider_id = EXCLUDED.provider_id, ...: every named column
\* but the two of the conflict key is overwritten, trip_id is kept
OnConflict(old, excluded) ==
    [old EXCEPT !.provider_id = excluded.provider_id,
                !.trip_end = excluded.trip_end,
                !.start_lat = excluded.start_lat,
                !.start_lon = excluded.start_lon,
                !.end_lat = excluded.end_lat,
                !.end_lon = excluded.end_lon,
                !.total_duration = excluded.total_duration,
                !.total_distance = excluded.total_distance,
                !.segment_count = excluded.segment_count]

ErrNone == "none"
ErrCardinality == "ON CONFLICT DO UPDATE command cannot affect row a second time"
ErrUnique == "duplicate key value violates unique constraint"
ErrNoSequence == "relation all_trips_trip_id_seq does not exist"
ErrConnect == "could not connect to server"
ErrServer == "server closed the connection unexpectedly"

\* The rows a transaction sees: the committed rows, with the transaction's
\* own uncommitted row versions in place of the versions they supersede
Visible(committed, own) ==
    {x \in committed : \A y \in own : y.trip_id # x.trip_id} \cup own

\* One INSERT ... VALUES ... ON CONFLICT ... DO UPDATE statement over the rows
\* of one page.  st carries the rows visible to the statement, the row
\* versions the statement has written, the sequence value and the error.
RECURSIVE ExecStatement(_, _)
ExecStatement(st, values) ==
    IF values = <<>> \/ st.err # ErrNone THEN st
    ELSE LET t == Head(values)
             id == st.seq + 1
             hit == Existing(st.rows, t)
         IN IF hit = {}
            THEN IF ViolatesUnique(st.rows, t)
                 THEN [st EXCEPT !.seq = id, !.err = ErrUnique]
                 ELSE ExecStatement([st EXCEPT !.rows = @ \cup {Proposed(t, id)},
                                               !.written = @ \cup {Proposed(t, id)},
                                               !.seq = id], Tail(values))
            ELSE LET old == CHOOSE x \in hit : TRUE
                 IN IF \E w \in st.written : w.trip_id = old.trip_id
                    THEN [st EXCEPT !.seq = id, !.err = ErrCardinality]
                    ELSE ExecStatement(
                           [st EXCEPT !.rows = (@ \ {old}) \cup {OnConflict(old, t)},
                                      !.written = @ \cup {OnConflict(old, t)},
                                      !.seq = id], Tail(values))

\* variant: the committed table is replaced by the transaction's rows
ApplyReplaceAll(committed, own) == own

\* dest_conn.commit(): the transaction's row versions replace the committed
\* versions of the same rows
Apply(committed, own) == Visible(committed, own)

\* variant: closing the connection commits the open transaction
CloseCommits(committed, own) ==
    {x \in committed : \A y \in own : y.trip_id # x.trip_id} \cup own

\* conn.close() of a connection with an open transaction: it is rolled back
CloseUncommitted(committed, own) == committed

\* execute_values sends the records in pages of PageSize rows
PageOf(recs, n) ==
    SubSeq(recs, (n - 1) * PageSize + 1,
           IF n * PageSize < Len(recs) THEN n * PageSize ELSE Len(recs))

\* variant: the except branch reports success
ErrorResultOk(e) == [statusCode |-> 200, body |-> <<"Error: ", e>>]

\* return {'statusCode': 200, 'body': ...}
SuccessResult ==
    [statusCode |-> StatusOk, body |-> <<"Data warehouse update completed successfully">>]

\* return {'statusCode': 500, 'body': f'Error: {str(e)}'}
ErrorResult(e) == [statusCode |-> StatusError, body |-> <<"Error: ", e>>]

\* the handler has not returned
NoResult == [statusCode |-> 0, body |-> <<>>]

(***************************************************************************)
(* State                                                                   *)
(***************************************************************************)
VARIABLES
    clk,          \* position of the wall clock in Clock
    bike_status,  \* source table: the sequence of ping rows, in insertion order
    schema,       \* what exists in the destination database
    seq,          \* last value of all_trips_trip_id_seq
    all_trips,    \* committed rows of the destination table
    pc,           \* per handler instance: its position in lambda_handler
    window,       \* per instance: [start, end) of the current invocation
    records,      \* per instance: the fetched result set
    page,         \* per instance: the next page execute_values sends
    tx,           \* per instance: uncommitted row versions of its transaction
    result,       \* per instance: the value the last invocation returned
    failed,       \* per instance: the step at which the invocation raised
    waited,       \* per instance: its upsert waited for a concurrent transaction
    invoked       \* number of handler invocations so far

vars == <<clk, bike_status, schema, seq, all_trips, pc, window, records, page, tx,
          result, failed, waited, invoked>>

dbVars == <<schema, seq, all_trips>>
runVars == <<pc, window, records, page, tx, result, failed, waited, invoked>>

\* the readings of datetime.now() at which the handlers are triggered:
\* bike_lambda at the first FeedTicks readings, trips_lambda at the later ones
Clock == <<0, 600, 1500, 2400, 9000, 9900, 90300>>
now == Clock[clk]

\* free_bike_status.json at the successive readings of the clock: V1 rides
\* north, V2 rides south, stands still and rides on
FeedV1 ==
    <<[provider_id |-> "P1", lat |-> 0, lon |-> 0],
      [provider_id |-> "P1", lat |-> 1, lon |-> 0],
      [provider_id |-> "P1", lat |-> 2, lon |-> 0],
      [provider_id |-> "P1", lat |-> 3, lon |-> 0]>>

FeedV2 ==
    <<[provider_id |-> "P2", lat |-> 3, lon |-> 0],
      [provider_id |-> "P2", lat |-> 2, lon |-> 0],
      [provider_id |-> "P2", lat |-> 2, lon |-> 0],
      [provider_id |-> "P2", lat |-> 1, lon |-> 1]>>

FeedTicks == Len(FeedV1)

Feed(b) == IF b = "V1" THEN FeedV1[clk] ELSE FeedV2[clk]

Ping(b, p, t, la, lo) ==
    [bike_id |-> b, provider_id |-> p, timestamp |-> t, lat |-> la, lon |-> lo]

\* a fixed order of the bikes of one feed
BikeOrder == <<"V1", "V2">>

Init ==
    /\ clk = 1
    /\ bike_status = <<>>
    /\ schema \in {"none", "sequence"}
    /\ seq = 0
    /\ all_trips = {}
    /\ pc = [r \in Runs |-> "idle"]
    /\ window = [r \in Runs |-> [start |-> 0, end |-> 0]]
    /\ records = [r \in Runs |-> <<>>]
    /\ page = [r \in Runs |-> 1]
    /\ tx = [r \in Runs |-> {}]
    /\ result = [r \in Runs |-> NoResult]
    /\ failed = [r \in Runs |-> "none"]
    /\ waited = [r \in Runs |-> FALSE]
    /\ invoked = 0

(***************************************************************************)
(* The environment: time passes, bike_lambda appends pings                 *)
(***************************************************************************)
Tick ==
    /\ clk < Len(Clock)
    /\ clk' = clk + 1
    /\ UNCHANGED <<bike_status, dbVars, runVars>>

\* bike_lambda.lambda_handler: one row per bike of the feed (all bikes, or V1
\* alone while V2 is not reported), all stamped with current_time;
\* (bike_id, timestamp) is the primary key
Ingest ==
    /\ clk <= FeedTicks
    /\ \A i \in DOMAIN bike_status : bike_status[i].timestamp # now
    /\ \E bikes \in {Bikes, {"V1"}} :
          /\ bike_status' = bike_status \o
                [i \in 1..Len(SelectSeq(BikeOrder, LAMBDA b : b \in bikes)) |->
                    LET b == SelectSeq(BikeOrder, LAMBDA x : x \in bikes)[i]
                    IN Ping(b, Feed(b).provider_id, now, Feed(b).lat, Feed(b).lon)]
    /\ UNCHANGED <<clk, dbVars, runVars>>

(***************************************************************************)
(* trips_lambda.lambda_handler                                             *)
(***************************************************************************)
\* end_date = zurich_tz.localize(datetime.now()); start_date = end_date - 1 day
Window(n) == [start |-> Localize(n) - WindowLen, end |-> Localize(n)]

Invoke(r) ==
    /\ pc[r] \in {"idle", "done"}
    /\ clk > FeedTicks
    /\ invoked < MaxRuns
    /\ invoked' = invoked + 1
    /\ pc' = [pc EXCEPT ![r] = "start"]
    /\ window' = [window EXCEPT ![r] = Window(now)]
    /\ records' = [records EXCEPT ![r] = <<>>]
    /\ page' = [page EXCEPT ![r] = 1]
    /\ result' = [result EXCEPT ![r] = NoResult]
    /\ failed' = [failed EXCEPT ![r] = "none"]
    /\ waited' = [waited EXCEPT ![r] = FALSE]
    /\ UNCHANGED <<clk, bike_status, dbVars, tx>>

\* with database_connection(SOURCE_DB_CONFIG) ..., database_connection(DEST_DB_CONFIG)
Connect(r) ==
    /\ pc[r] = "start"
    /\ pc' = [pc EXCEPT ![r] = "connected"]
    /\ UNCHANGED <<clk, bike_status, dbVars, window, records, page, tx, result,
                   failed, waited, invoked>>

\* the except branch of lambda_handler, after the connections are closed
Raise(r, step, e) ==
    /\ pc' = [pc EXCEPT ![r] = "done"]
    /\ failed' = [failed EXCEPT ![r] = step]
    /\ result' = [result EXCEPT ![r] = ErrorResult(e)]
    /\ all_trips' = CloseUncommitted(all_trips, tx[r])
    /\ tx' = [tx EXCEPT ![r] = {}]

\* create_destination_table: CREATE TABLE names the sequence before
\* CREATE SEQUENCE creates it; an existing table is left as it is
CreateTable(r) ==
    /\ pc[r] = "connected"
    /\ IF schema = "none"
       THEN /\ Raise(r, "provision", ErrNoSequence)
            /\ UNCHANGED <<schema>>
       ELSE /\ schema' = "table"
            /\ pc' = [pc EXCEPT ![r] = "provisioned"]
            /\ UNCHANGED <<all_trips, tx, result, failed>>
    /\ UNCHANGED <<clk, bike_status, seq, window, records, page, waited, invoked>>

\* source_cursor.execute(extract_query, (start_date, end_date)); fetchall();
\* "if not records: return"
Extract(r) ==
    /\ pc[r] = "provisioned"
    /\ \E recs \in ExtractQuery(bike_status, window[r]) :
          /\ records' = [records EXCEPT ![r] = recs]
          /\ pc' = [pc EXCEPT ![r] = IF recs = <<>> THEN "nodata" ELSE "merging"]
    /\ UNCHANGED <<clk, bike_status, dbVars, window, page, tx, result, failed,
                   waited, invoked>>

\* variant: the upsert does not wait for a concurrent transaction
LockedNever(r, values) == FALSE

\* a row another open transaction has written is locked until that
\* transaction ends; an upsert that meets it waits
Locked(r, values) ==
    \E o \in Runs \ {r} : \E x \in tx[o] : \E i \in DOMAIN values :
        ConflictKey(x) = ConflictKey(values[i])

\* execute_values: the statement of the next page
MergePage(r) ==
    /\ pc[r] = "merging"
    /\ ~Locked(r, PageOf(records[r], page[r]))
    /\ LET st == ExecStatement([rows |-> Visible(all_trips, tx[r]), written |-> {},
                                seq |-> seq, err |-> ErrNone],
                               PageOf(records[r], page[r]))
       IN /\ seq' = st.seq
          /\ IF st.err # ErrNone
             THEN /\ Raise(r, "merge", st.err)
                  /\ UNCHANGED <<page>>
             ELSE /\ tx' = [tx EXCEPT ![r] =
                              {x \in @ : \A w \in st.written : w.trip_id # x.trip_id}
                              \cup st.written]
                  /\ page' = [page EXCEPT ![r] = @ + 1]
                  /\ pc' = [pc EXCEPT ![r] =
                              IF page[r] * PageSize >= Len(records[r])
                              THEN "merged" ELSE "merging"]
                  /\ UNCHANGED <<all_trips, result, failed>>
    /\ UNCHANGED <<clk, bike_status, schema, window, records, waited, invoked>>

\* dest_conn.commit()
Commit(r) ==
    /\ pc[r] = "merged"
    /\ all_trips' = Apply(all_trips, tx[r])
    /\ tx' = [tx EXCEPT ![r] = {}]
    /\ pc' = [pc EXCEPT ![r] = "committed"]
    /\ waited' = [o \in Runs |->
                    waited[o] \/ (o # r /\ pc[o] = "merging"
                                  /\ Locked(o, PageOf(records[o], page[o])))]
    /\ UNCHANGED <<clk, bike_status, schema, seq, window, records, page, result,
                   failed, invoked>>

\* return {'statusCode': 200, ...}
Return(r) ==
    /\ pc[r] \in {"nodata", "committed"}
    /\ pc' = [pc EXCEPT ![r] = "done"]
    /\ result' = [result EXCEPT ![r] = SuccessResult]
    /\ UNCHANGED <<clk, bike_status, dbVars, window, records, page, tx, failed,
                   waited, invoked>>

\* psycopg2 raises in connect, in the DDL, in the extraction query or in a
\* statement of the merge: the server is unreachable or drops the connection
StepOf(p) ==
    IF p = "start" THEN "connect"
    ELSE IF p = "connected" THEN "provision"
    ELSE IF p = "provisioned" THEN "extract" ELSE "merge"

Fail(r) ==
    /\ pc[r] \in {"start", "connected", "provisioned", "merging"}
    /\ Raise(r, StepOf(pc[r]), IF pc[r] = "start" THEN ErrConnect ELSE ErrServer)
    /\ UNCHANGED <<clk, bike_status, schema, seq, window, records, page, waited,
                   invoked>>

Next ==
    \/ Tick
    \/ Ingest
    \/ \E r \in Runs :
          \/ Invoke(r)
          \/ Connect(r)
          \/ CreateTable(r)
          \/ Extract(r)
          \/ MergePage(r)
          \/ Commit(r)
          \/ Return(r)
          \/ Fail(r)

Spec == Init /\ [][Next]_vars

(***************************************************************************)
(* The query over exhaustive ping histories: one handler instance runs     *)
(* once, without faults, over every history of V1 within the bounds        *)
(***************************************************************************)
\* every time-ordered history of V1 with at most one ping per instant of times
RECURSIVE HistoriesOver(_, _, _)
HistoriesOver(times, lats, provs) ==
    IF times = <<>> THEN {<<>>}
    ELSE LET rest == HistoriesOver(Tail(times), lats, provs)
         IN rest \cup {<<Ping("V1", p, Head(times), la, 0)>> \o h :
                          <<p, la, h>> \in provs \X lats \X rest}

Histories ==
    {h \o g : <<h, g>> \in HistoriesOver(<<0, 600, 1500, 2400>>, 0..MaxLat, Providers)
                           \X HistoriesOver(<<4800>>, {0}, {"P1"})}

InitQuery ==
    /\ clk \in {6, 7}
    /\ bike_status \in Histories
    /\ schema = "sequence"
    /\ seq = 0
    /\ all_trips = {}
    /\ pc = [r \in Runs |-> "idle"]
    /\ window = [r \in Runs |-> [start |-> 0, end |-> 0]]
    /\ records = [r \in Runs |-> <<>>]
    /\ page = [r \in Runs |-> 1]
    /\ tx = [r \in Runs |-> {}]
    /\ result = [r \in Runs |-> NoResult]
    /\ failed = [r \in Runs |-> "none"]
    /\ waited = [r \in Runs |-> FALSE]
    /\ invoked = 0

NextQuery ==
    \/ invoked = 0 /\ Invoke(1)
    \/ Connect(1)
    \/ CreateTable(1)
    \/ Extract(1)
    \/ MergePage(1)
    \/ Commit(1)
    \/ Return(1)

SpecQuery == InitQuery /\ [][NextQuery]_vars

(***************************************************************************)
(* The query over ping histories around the end of daylight saving time    *)
(* and over histories with gaps at the limits of the in-trip interval      *)
(***************************************************************************)
\* instants before and after DstEnd: those 3600 s apart across DstEnd have
\* the same Zurich wall-clock reading
DstTimes == <<3000, 3600, 4200, 6600, 7200, 7800>>

\* instants before DstEnd with gaps of 59 s, 1 min, 60 min, 61 min and 90 min
GapTimes == <<300, 359, 360, 3960, 5760>>

HistoriesDst ==
    HistoriesOver(DstTimes, {0, 1}, Providers) \cup HistoriesOver(GapTimes, {0, 1}, {"P1"})

InitDst ==
    /\ clk = Len(Clock)
    /\ bike_status \in HistoriesDst
    /\ schema = "sequence"
    /\ seq = 0
    /\ all_trips = {}
    /\ pc = [r \in Runs |-> "idle"]
    /\ window = [r \in Runs |-> [start |-> 0, end |-> 0]]
    /\ records = [r \in Runs |-> <<>>]
    /\ page = [r \in Runs |-> 1]
    /\ tx = [r \in Runs |-> {}]
    /\ result = [r \in Runs |-> NoResult]
    /\ failed = [r \in Runs |-> "none"]
    /\ waited = [r \in Runs |-> FALSE]
    /\ invoked = 0

SpecDst == InitDst /\ [][NextQuery]_vars

(***************************************************************************)
(* The query over every stored order of the rows of bike_status: the table *)
(* is a heap, FROM bike_status scans it in an order the query does not     *)
(* choose                                                                  *)
(***************************************************************************)
PermTimes == <<600, 1500, 2400>>

\* three pings of V2 that lie between the instants of V1
FeedOther ==
    <<Ping("V2", "P2", 900, 0, 0), Ping("V2", "P2", 1800, 1, 0), Ping("V2", "P2", 2700, 0, 0)>>

\* every order in which the rows of h can be stored
StoredOrders(h) == {[i \in DOMAIN h |-> h[f[i]]] : f \in Permutations(DOMAIN h)}

HistoriesPerm ==
    UNION {StoredOrders(h \o g) :
              <<h, g>> \in HistoriesOver(PermTimes, {0, 1}, {"P1"}) \X {<<>>, FeedOther}}

InitPerm ==
    /\ clk = Len(Clock)
    /\ bike_status \in HistoriesPerm
    /\ schema = "sequence"
    /\ seq = 0
    /\ all_trips = {}
    /\ pc = [r \in Runs |-> "idle"]
    /\ window = [r \in Runs |-> [start |-> 0, end |-> 0]]
    /\ records = [r \in Runs |-> <<>>]
    /\ page = [r \in Runs |-> 1]
    /\ tx = [r \in Runs |-> {}]
    /\ result = [r \in Runs |-> NoResult]
    /\ failed = [r \in Runs |-> "none"]
    /\ waited = [r \in Runs |-> FALSE]
    /\ invoked = 0

SpecPerm == InitPerm /\ [][NextQuery]_vars

(***************************************************************************)
(* Properties                                                              *)
(***************************************************************************)
\* the instance holds the result set of its current invocation
Extracted(r) ==
    \/ pc[r] \in {"nodata", "merging", "merged", "committed"}
    \/ pc[r] = "done" /\ failed[r] \in {"none", "merge"}

\* the rows of the instance's window
Pings(r) == InWindow(bike_status, window[r])

\* the candidates the query aggregated for the instance's window
Candidates(r) == trip_aggregates(Pings(r))

\* the positions, in bike b's time-ordered pings, of the pairs that
\* were aggregated into the trip of provider p
Pairs(r, b, p) ==
    LET td == trip_data(Partition(Pings(r), b))
    IN {i \in DOMAIN td : InTrip(td[i]) /\ td[i].provider_id = p}

\* the instance has committed the merge of its result set
Merged(r) == pc[r] = "committed" \/ (pc[r] = "done" /\ failed[r] = "none" /\ records[r] # <<>>)

\* the step of instance r is its commit
Committing(r) == pc[r] = "merged" /\ pc'[r] = "committed"

\* no invocation has ended in a duplicate-key error
NoDuplicateKeyError == \A r \in Runs : result[r] # ErrorResult(ErrUnique)

\* C1: after any sequence of runs the destination table holds at most one
\* row for each (bike_id, trip_start).
C1_OneRowPerKey ==
    \A x, y \in all_trips :
        (x.bike_id = y.bike_id /\ x.trip_start = y.trip_start) => x = y

\* two runs have merged different values of the same trip, one after the other
C1_Witness ==
    /\ pc[1] = "done" /\ failed[1] = "none"
    /\ pc[2] = "committed"
    /\ \E i \in DOMAIN records[1] : \E j \in DOMAIN records[2] :
          /\ records[1][i].bike_id = records[2][j].bike_id
          /\ records[1][i].trip_start = records[2][j].trip_start
          /\ records[1][i] # records[2][j]

\* C2: merging a set of trips the destination already holds (it was merged
\* before) changes nothing: the commit leaves every row and the row count as
\* they were, and no merge ends in a duplicate-key error.
C2_MergeIdempotent ==
    [][/\ NoDuplicateKeyError
       /\ \A r \in Runs :
            (/\ Committing(r)
             /\ \A i \in DOMAIN records[r] :
                   \E x \in all_trips : Attrs(x) = records[r][i])
            => all_trips' = all_trips]_vars

\* an instance has committed the very result set the other instance had
\* merged and returned before
C2_Witness ==
    \E r \in Runs : \E o \in Runs \ {r} :
        /\ pc[r] = "committed" /\ ~waited[r]
        /\ pc[o] = "done" /\ failed[o] = "none"
        /\ records[r] = records[o] /\ records[r] # <<>>
        /\ \A i \in DOMAIN records[r] : \E x \in all_trips : Attrs(x) = records[r][i]

C4_Accepted(t) ==
    /\ t.total_duration >= 1 * 60 /\ t.total_duration <= 60 * 60
    /\ t.total_distance > 0
    /\ t.segment_count >= 2

\* C4: every row written to the destination satisfies 1 <= total_duration
\* (minutes) <= 60, total_distance > 0 and segment_count >= 2, and the rows a
\* run fetches and writes are exactly the aggregated candidates that satisfy
\* the three conditions.
C4_ValidatorAcceptsIff ==
    /\ \A x \in all_trips : C4_Accepted(x)
    /\ \A r \in Runs :
          /\ Extracted(r) =>
                Range(records[r]) = {t \in Candidates(r) : C4_Accepted(t)}
          /\ Merged(r) =>
                {Attrs(x) : x \in all_trips} = {t \in Candidates(r) : C4_Accepted(t)}

\* a run has written a trip of two segments and dropped a candidate of one
C4_Witness ==
    /\ pc[1] = "committed"
    /\ all_trips # {}
    /\ \E t \in Candidates(1) : t.segment_count < 2
    /\ \E t \in Candidates(1) : t \in Range(records[1]) /\ t.segment_count = 2

\* a candidate of more than 60 minutes has been dropped
C4_WitnessLong ==
    /\ pc[1] = "nodata"
    /\ \E t \in Candidates(1) : t.total_duration > 60 * 60 /\ t.segment_count >= 2

\* C5 as stated: the result of every run carries a status, the processed
\* window and trips_written, and the results of runs that failed at
\* different stages differ.
C5_ResultCarriesWindowAndCount ==
    /\ \A r \in Runs :
          pc[r] = "done" =>
             /\ {"window", "trips_written"} \subseteq DOMAIN result[r]
             /\ result[r].window = window[r]
             /\ result[r].trips_written = (IF Merged(r) THEN Len(records[r]) ELSE 0)
    /\ \A r, o \in Runs :
          (/\ pc[r] = "done" /\ pc[o] = "done"
           /\ failed[r] = "extract" /\ failed[o] = "merge")
          => result[r] # result[o]

\* C5, amended: the result of every run carries exactly a statusCode and a
\* body; a run that raised nowhere returns 200 and the fixed message (also
\* when it fetched no rows), a run that raised returns 500 and "Error: "
\* followed by the text of the exception.
C5_ResultIsStatusAndBody ==
    \A r \in Runs :
        pc[r] = "done" =>
           /\ DOMAIN result[r] = {"statusCode", "body"}
           /\ failed[r] = "none" =>
                 /\ result[r].statusCode = 200
                 /\ result[r].body = <<"Data warehouse update completed successfully">>
           /\ failed[r] # "none" =>
                 /\ result[r].statusCode = 500
                 /\ Len(result[r].body) = 2
                 /\ result[r].body[1] = "Error: "
                 /\ result[r].body[2] \in
                       {ErrConnect, ErrNoSequence, ErrServer, ErrCardinality, ErrUnique}

\* one run failed in the extraction, the other in the merge, and they
\* returned the same result
C5_Witness ==
    /\ pc[1] = "done" /\ failed[1] = "extract"
    /\ pc[2] = "done" /\ failed[2] = "merge"
    /\ result[1] = result[2]
    /\ result[1].statusCode = 500

\* the pings of V1 in the window of the instance are those of the scenario:
\* t0 (47.00, 8.0), t0 + 10 min (47.01, 8.0), t0 + 25 min (47.02, 8.0) and
\* t0 + 40 min (47.03, 8.0), all of one provider, t0 being instant 0
C6_Scenario(r) ==
    LET v == Partition(Pings(r), "V1")
    IN /\ Len(v) = 4
       /\ \A i \in 1..4 :
             /\ v[i].timestamp = <<0, 600, 1500, 2400>>[i]
             /\ v[i].lat = i - 1
             /\ v[i].lon = 0
             /\ v[i].provider_id = v[1].provider_id

\* the trips the instance fetched for bike b
TripsOf(r, b) == {t \in Range(records[r]) : t.bike_id = b}

\* C6 as stated: the scenario yields exactly one trip of V1, with
\* segment_count 3, total_duration 30 minutes, trip_start t0, trip_end t40.
C6_ScenarioThirtyMinutes ==
    \A r \in Runs :
        (Extracted(r) /\ C6_Scenario(r)) =>
           /\ Cardinality(TripsOf(r, "V1")) = 1
           /\ \A t \in TripsOf(r, "V1") :
                 /\ t.segment_count = 3
                 /\ t.total_duration = 30 * 60
                 /\ t.trip_start = ToLocal(0)
                 /\ t.trip_end = ToLocal(2400)

\* C6, amended: the scenario yields exactly one trip of V1, with
\* segment_count 3, total_duration 40 minutes (10 + 15 + 15), trip_start t0
\* and trip_end t40 (as Zurich wall-clock times).
C6_ScenarioFortyMinutes ==
    \A r \in Runs :
        (Extracted(r) /\ C6_Scenario(r)) =>
           /\ Cardinality(TripsOf(r, "V1")) = 1
           /\ \A t \in TripsOf(r, "V1") :
                 /\ t.segment_count = 3
                 /\ t.total_duration = 40 * 60
                 /\ t.trip_start = ToLocal(0)
                 /\ t.trip_end = ToLocal(2400)

\* a run has written the trip of the scenario
C6_Witness ==
    /\ pc[1] = "committed"
    /\ C6_Scenario(1)
    /\ \E x \in all_trips : x.bike_id = "V1" /\ x.segment_count = 3

\* C7: a step changes the destination only as the commit of a merge: every
\* stored row stays, with its trip_id and its key; a row whose key is not in
\* the merged batch is unchanged; a new row has a key of the batch.
C7_MergeFrame ==
    [][/\ \A x \in all_trips :
             /\ \E y \in all_trips' :
                   /\ y.trip_id = x.trip_id
                   /\ y.bike_id = x.bike_id /\ y.trip_start = x.trip_start
             /\ x \notin all_trips' =>
                   \E r \in Runs : /\ Committing(r)
                                   /\ \E i \in DOMAIN records[r] :
                                         /\ records[r][i].bike_id = x.bike_id
                                         /\ records[r][i].trip_start = x.trip_start
       /\ \A y \in all_trips' \ all_trips :
             \E r \in Runs : /\ Committing(r)
                             /\ \E i \in DOMAIN records[r] :
                                   /\ records[r][i].bike_id = y.bike_id
                                   /\ records[r][i].trip_start = y.trip_start]_vars

\* a merge has been committed that overwrote a row another run had written
\* and left a second row of that run, of a key outside the batch, as it was
C7_Witness ==
    \E r \in Runs : \E o \in Runs \ {r} :
        /\ pc[r] = "committed"
        /\ pc[o] = "done" /\ failed[o] = "none"
        /\ \E x \in all_trips :
              /\ Attrs(x) \in Range(records[o])
              /\ \A i \in DOMAIN records[r] :
                    ~(/\ records[r][i].bike_id = x.bike_id
                      /\ records[r][i].trip_start = x.trip_start)
        /\ \E x \in all_trips : \E i \in DOMAIN records[r] : \E j \in DOMAIN records[o] :
              /\ Attrs(x) = records[r][i]
              /\ records[o][j].bike_id = x.bike_id
              /\ records[o][j].trip_start = x.trip_start
              /\ records[o][j] # records[r][i]

\* C8: once two instances have both merged the same result set, whatever the
\* order of their statements and commits, the destination holds for every
\* trip of it exactly one row, with the values of the trip, and no
\* invocation has ended in a duplicate-key error.
C8_ConcurrentMergeSafe ==
    /\ NoDuplicateKeyError
    /\ \A r \in Runs : \A o \in Runs \ {r} :
          (Merged(r) /\ Merged(o) /\ records[r] = records[o]) =>
             \A i \in DOMAIN records[r] :
                /\ \E x \in all_trips : Attrs(x) = records[r][i]
                /\ Cardinality({x \in all_trips :
                      /\ x.bike_id = records[r][i].bike_id
                      /\ x.trip_start = records[r][i].trip_start}) = 1

\* two instances have merged the same result set at the same time: the
\* upsert of one waited for the commit of the other
C8_Witness ==
    \E r \in Runs : \E o \in Runs \ {r} :
        /\ Merged(r) /\ Merged(o)
        /\ records[r] = records[o] /\ records[r] # <<>>
        /\ waited[r]

\* C9 as stated: the pairs aggregated into one trip are consecutive pairs of
\* the vehicle: no pair between two of them is a boundary.
C9_TripIsOneRun ==
    \A r \in Runs :
        Extracted(r) =>
           \A t \in Range(records[r]) :
              LET td == trip_data(Partition(Pings(r), t.bike_id))
                  I == Pairs(r, t.bike_id, t.provider_id)
              IN \A i, k \in I : \A j \in DOMAIN td :
                    (i < j /\ j < k) => InTrip(td[j])

\* C10 as stated: trip_start and the start coordinates of a trip are those of
\* the earlier ping of its first pair, trip_end and the end coordinates those
\* of the later ping of its last pair.
C10_EndpointsOfFirstAndLastPing ==
    \A r \in Runs :
        Extracted(r) =>
           \A t \in Range(records[r]) :
              LET td == trip_data(Partition(Pings(r), t.bike_id))
                  I == Pairs(r, t.bike_id, t.provider_id)
                  first == td[MinOf(I)]
                  last == td[MaxOf(I)]
              IN /\ t.trip_start = first.prev_time
                 /\ t.start_lat = first.prev_lat
                 /\ t.start_lon = first.prev_lon
                 /\ t.trip_end = last.local_time
                 /\ t.end_lat = last.lat
                 /\ t.end_lon = last.lon

\* C11 as stated: a pair of time-adjacent pings of a vehicle is classified
\* in-trip iff the time elapsed between the two pings is between 1 and 60
\* minutes inclusive and the two coordinates differ.
C11_InTripIffElapsedAndMoved ==
    \A r \in Runs :
        Extracted(r) =>
           \A b \in Bikes :
              LET part == Partition(Pings(r), b)
                  td == trip_data(part)
              IN \A i \in 2..Len(part) :
                    InTrip(td[i]) <=>
                       /\ part[i].timestamp - part[i - 1].timestamp >= 1 * 60
                       /\ part[i].timestamp - part[i - 1].timestamp <= 60 * 60
                       /\ (part[i].lat # part[i - 1].lat \/ part[i].lon # part[i - 1].lon)

\* the rows in increasing order of timestamp
SortedByTime(rows) == SortSeq(rows, LAMBDA x, y : x.timestamp < y.timestamp)

\* some bike's rows are stored out of time order
OutOfOrder(rows) ==
    \E i, j \in DOMAIN rows :
        /\ i < j
        /\ rows[i].bike_id = rows[j].bike_id
        /\ rows[i].timestamp > rows[j].timestamp

\* C12: the trips of a run depend only on the set of pings of the window, not
\* on the order in which the rows are stored: whatever the stored order, every
\* pair is made of two pings of the bike adjacent in time, the earlier strictly
\* before the later, and the result is one the time-sorted rows give.
C12_TripsIndependentOfStoredOrder ==
    \A r \in Runs :
        Extracted(r) =>
           /\ records[r] \in ExtractQuery(SortedByTime(bike_status), window[r])
           /\ \A b \in Bikes :
                 LET part == Partition(Pings(r), b)
                 IN \A i \in 2..Len(part) :
                       /\ part[i - 1].timestamp < part[i].timestamp
                       /\ ~ \E p \in Range(Pings(r)) :
                              /\ p.bike_id = b
                              /\ part[i - 1].timestamp < p.timestamp
                              /\ p.timestamp < part[i].timestamp

\* a run has committed trips of both bikes extracted from rows stored out of
\* time order
C12_Witness ==
    /\ pc[1] = "committed"
    /\ OutOfOrder(bike_status)
    /\ {t.bike_id : t \in Range(records[1])} = Bikes
    /\ {Attrs(t) : t \in all_trips} = Range(records[1])

\* C13 as stated: within one run the trips handed to the merge have pairwise
\* distinct (bike_id, trip_start) keys, also when a bike's pings of the window
\* carry more than one provider_id, so the upsert never targets the same row of
\* all_trips twice.
C13_RecordsHaveDistinctKeys ==
    \A r \in Runs :
        Extracted(r) =>
           \A i, j \in DOMAIN records[r] :
               i # j => ConflictKey(records[r][i]) # ConflictKey(records[r][j])

====
